---- MODULE Spec2Model ----
(***************************************************************************)
(* Model of the product crawler (TP1/crawler.py) and of the index builder  *)
(* (TP2/index.py).                                                         *)
(*                                                                         *)
(* Spec       the crawl loop of crawl(url, nb_pages), one action per       *)
(*            outcome of one loop iteration, against a web whose           *)
(*            responses are chosen when they are requested.                *)
(* SpecText, SpecReviews, SpecFeatures                                     *)
(*            one index construction each, one action per row of the data  *)
(*            frame, over a bounded corpus.                                *)
(* SpecIndex  the three constructions together.                            *)
(* SpecPipeline  the constructions over a corpus as the crawler writes it. *)
(***************************************************************************)
EXTENDS Integers, Sequences, FiniteSets, TLC

\* ------------------------------------------------------------------ bounds

\* Longest list of <a> links on one fetched page.
MaxLinks == 2

\* ------------------------------------------------------- program constants

\* crawler.py line 128: pages_max = 50
pages_max == 50

\* ------------------------------------------------------------------- URLs
\* A URL string "<scheme>://<host>/<seg1>/<seg2>..." is the record
\* [scheme, host, path], path being the sequence of its segments.  A
\* relative link "/seg1/seg2" has scheme "" and host "".  The href of an <a>
\* tag without href is None.

Url(scheme, host, path) == [scheme |-> scheme, host |-> host, path |-> path]

None == Url("None", "", <<>>)

Root     == Url("https", "shop", <<>>)                 \* https://shop
Products == Url("https", "shop", <<"products">>)       \* https://shop/products
Product0 == Url("https", "shop", <<"product", "0">>)   \* https://shop/product/0
Product1 == Url("https", "shop", <<"product", "1">>)   \* https://shop/product/1
Other    == Url("https", "shop", <<"other">>)          \* https://shop/other
RelProduct == Url("", "", <<"product", "3">>)          \* /product/3

\* Seeds handed to crawl: absolute http(s) URLs.
Seeds == {Root, Products, Product0}

\* hrefs a page may carry.
Links == {None, Products, Product0, Product1, Other, RelProduct}

\* Values of the nb_pages argument.
RequestedPages == {1, 2, 1000}

\* url.startswith("http://") or url.startswith("https://")
IsHttp(url) == url.scheme \in {"http", "https"}

\* urlparse(url).path.startswith("/product/"): the path is "/" followed by
\* the segments joined by "/", so it starts with "/product/" exactly when the
\* first segment is "product" and another segment follows.
PathStartsWithProduct(url) ==
    /\ Len(url.path) >= 2
    /\ url.path[1] = "product"

\* url + "/robots.txt"
RobotsUrl(url) == [url EXCEPT !.path = Append(@, "robots.txt")]

\* The exclusion-rules resource of the origin of url: <scheme>://<host>/robots.txt
OriginRobotsUrl(url) == Url(url.scheme, url.host, <<"robots.txt">>)

\* --------------------------------------------------------------- responses
\* A robots.txt body is a sequence of lexical pieces; a substring test of the
\* code is a test for a contiguous run of pieces.

RobotsAll   == <<"User-agent: ", "*", "\n", "Disallow: ", "/", "\n">>
RobotsSub   == <<"User-agent: ", "*", "\n", "Disallow: ", "/", "admin", "\n">>
RobotsAgent == <<"User-agent: ", "BadBot", "\n", "Disallow: ", "/", "\n">>
RobotsFree  == <<"User-agent: ", "*", "\n", "Disallow: ", "\n">>

RobotsTexts == {RobotsAll, RobotsSub, RobotsAgent, RobotsFree}

\* Outcome of requests.get on a rules resource: the call raises (transport
\* error), or it returns a response with a status code and a text.
Raised == [raised |-> TRUE, status_code |-> 0, text |-> <<>>]

Response(status, text) == [raised |-> FALSE, status_code |-> status, text |-> text]

RulesOutcomes ==
    {Raised, Response(404, <<>>)} \cup {Response(200, t) : t \in RobotsTexts}

\* needle in hay
Contains(hay, needle) ==
    \E k \in 0..(Len(hay) - Len(needle)) :
        SubSeq(hay, k + 1, k + Len(needle)) = needle

\* ------------------------------------------------------------ can_crawl
\* Lines 31-35 of can_crawl, for a rules request that returned: refuse when
\* the status is 200 and the text holds the substring "Disallow: /".
can_crawl(response) ==
    IF response.status_code = 200 /\ Contains(response.text, <<"Disallow: ", "/">>)
    THEN FALSE
    ELSE TRUE

\* ------------------------------------------------------------------ pages
\* Outcome of fetching and parsing one page: requests.get raises; or it
\* returns and parse_html finds `bodies` <body> elements, the first of which
\* carries the hrefs `links`.  A document without <body> gives products = []
\* (products[0] then raises IndexError); parse_html itself raises when an
\* element has neither the product heading nor a <title>.

RECURSIVE SeqsUpTo(_, _)
SeqsUpTo(S, n) ==
    IF n = 0 THEN {<<>>}
    ELSE LET shorter == SeqsUpTo(S, n - 1)
         IN  shorter \cup {Append(q, x) : q \in {r \in shorter : Len(r) = n - 1}, x \in S}

LinkLists == SeqsUpTo(Links, MaxLinks)

\* Documents served have at most one <body>.
BodyCounts == {0, 1}

PageOutcomes ==
    {[kind |-> "get_raises", bodies |-> 0, links |-> <<>>],
     [kind |-> "parse_raises", bodies |-> 0, links |-> <<>>]}
    \cup {[kind |-> "parsed", bodies |-> 0, links |-> <<>>]}
    \cup {[kind |-> "parsed", bodies |-> b, links |-> l] :
             b \in BodyCounts \ {0}, l \in LinkLists}

\* parse_html lines 96-106: one product per <body>, each with the page's url.
\* The other fields of a product (title, description, features, reviews) do
\* not steer the crawl and are left out of the record.
Product(url) == [url |-> url]

RECURSIVE Repeat(_, _)
Repeat(x, n) == IF n = 0 THEN <<>> ELSE <<x>> \o Repeat(x, n - 1)

parse_html(url, page) == Repeat(Product(url), page.bodies)

\* ------------------------------------------------------------ crawl state
VARIABLES
    seed,               \* argument url of crawl
    requested,          \* argument nb_pages of crawl, as passed
    origin_rules,       \* what the origin's /robots.txt answers, fixed for a run
    pc,                 \* "start", "loop", "done" (returned), "crashed" (raised)
    urls_priority,      \* the list the for loop walks
    it,                 \* number of elements the for loop has taken
    urls_non_priority,
    visited,
    nb_pages,           \* the local nb_pages, after the clamp
    i,
    output,
    reported,           \* the clamp message of lines 135-136 was printed
    fetched,            \* page URLs handed to requests.get at line 149, in order
    gate,               \* the last call of can_crawl: its url, rules outcome, answer
    failure,            \* "none", or which call raised: "rules", "fetch", "extract"
    result              \* what crawl returned

cvars == <<seed, requested, origin_rules, pc, urls_priority, it, urls_non_priority,
           visited, nb_pages, i, output, reported, fetched, gate, failure, result>>

\* State of an index construction of index.py.
VARIABLES
    job,        \* the construction running: its operation and its field or feature
    data,       \* the rows of the data frame the loop has taken, in order
    built,      \* the local index of the construction, as built so far
    ipc,        \* "idle", "rows" (in the loop over the rows), "done" (returned),
                \* "raised" (left by an exception)
    columns,    \* the column names of the data frame
    error       \* the exception that left the construction, and the row it met

ivars == <<job, data, built, ipc, columns, error>>

NoGate == [consulted |-> FALSE, url |-> None, rules |-> Raised, answer |-> "none"]

NoResult == [returned |-> FALSE, value |-> <<>>]

InSeq(x, s) == \E k \in 1..Len(s) : s[k] = x

\* Lines 133-134: the page budget after the clamp.
Clamp(n) == IF n > pages_max THEN pages_max ELSE n

\* The budget test, off by one.
BudgetReachedLate(count, budget) == count > budget

\* Line 140: the budget test at the top of an iteration.
BudgetReached(count, budget) == count >= budget

\* The scheduling test without the product pattern.
ShouldEnqueueAnyPath(url, vis) == url \notin vis

\* The scheduling test without the visited set.
ShouldEnqueueSeen(url, vis) == PathStartsWithProduct(url)

\* Line 158: a link is scheduled.
ShouldEnqueue(url, vis) == PathStartsWithProduct(url) /\ url \notin vis

\* Lines 154-162: the walk over list_url; st holds urls_priority, visited and
\* urls_non_priority.
RECURSIVE ScanLinks(_, _)
ScanLinks(list_url, st) ==
    IF list_url = <<>> THEN st
    ELSE LET url == Head(list_url)
             next ==
                 IF url = None THEN st
                 ELSE IF ShouldEnqueue(url, st.visited)
                 THEN [st EXCEPT !.urls_priority = Append(@, url),
                                 !.visited = @ \cup {url}]
                 ELSE IF ~InSeq(url, st.urls_non_priority)
                 THEN [st EXCEPT !.urls_non_priority = Append(@, url)]
                 ELSE st
         IN  ScanLinks(Tail(list_url), next)

\* The loop taking the newest element of the list.
CurrentNewest == urls_priority[Len(urls_priority)]

\* The url the for loop is about to take.
Current == urls_priority[it + 1]

\* What the rules resource url + "/robots.txt" may answer: the origin's rules
\* when that is the resource the string names, anything otherwise.
RulesAt(url) ==
    IF RobotsUrl(url) = OriginRobotsUrl(url) THEN {origin_rules} ELSE RulesOutcomes

CrawlInit ==
    /\ seed \in Seeds
    /\ requested \in RequestedPages
    /\ origin_rules \in RulesOutcomes
    /\ pc = "start"
    /\ urls_priority = <<>>
    /\ it = 0
    /\ urls_non_priority = <<>>
    /\ visited = {}
    /\ nb_pages = requested
    /\ i = 0
    /\ output = <<>>
    /\ reported = FALSE
    /\ fetched = <<>>
    /\ gate = NoGate
    /\ failure = "none"
    /\ result = NoResult

\* Lines 124-136.
Begin ==
    /\ pc = "start"
    /\ UNCHANGED ivars
    /\ urls_priority' = <<seed>>
    /\ nb_pages' = Clamp(requested)
    /\ reported' = (requested > pages_max)
    /\ pc' = "loop"
    /\ UNCHANGED <<seed, requested, origin_rules, it, urls_non_priority, visited, i,
                   output, fetched, gate, failure, result>>

\* The for loop finds no further element: line 170.
Exhausted ==
    /\ pc = "loop"
    /\ UNCHANGED ivars
    /\ it >= Len(urls_priority)
    /\ pc' = "done"
    /\ result' = [returned |-> TRUE, value |-> output]
    /\ UNCHANGED <<seed, requested, origin_rules, urls_priority, it, urls_non_priority,
                   visited, nb_pages, i, output, reported, fetched, gate, failure>>

\* Lines 140-142, then line 170.
BudgetStop ==
    /\ pc = "loop"
    /\ UNCHANGED ivars
    /\ it < Len(urls_priority)
    /\ BudgetReached(i, nb_pages)
    /\ pc' = "done"
    /\ it' = it + 1
    /\ result' = [returned |-> TRUE, value |-> output]
    /\ UNCHANGED <<seed, requested, origin_rules, urls_priority, urls_non_priority,
                   visited, nb_pages, i, output, reported, fetched, gate, failure>>

\* Lines 145-147.
SkipInvalid ==
    /\ pc = "loop"
    /\ UNCHANGED ivars
    /\ it < Len(urls_priority)
    /\ ~BudgetReached(i, nb_pages)
    /\ ~IsHttp(Current)
    /\ it' = it + 1
    /\ UNCHANGED <<seed, requested, origin_rules, pc, urls_priority, urls_non_priority,
                   visited, nb_pages, i, output, reported, fetched, gate, failure, result>>

\* Line 148 with requests.get of line 30 raising: the exception leaves crawl.
RulesRaise ==
    /\ pc = "loop"
    /\ UNCHANGED ivars
    /\ it < Len(urls_priority)
    /\ ~BudgetReached(i, nb_pages)
    /\ IsHttp(Current)
    /\ Raised \in RulesAt(Current)
    /\ gate' = [consulted |-> TRUE, url |-> Current, rules |-> Raised, answer |-> "raised"]
    /\ it' = it + 1
    /\ pc' = "crashed"
    /\ failure' = "rules"
    /\ UNCHANGED <<seed, requested, origin_rules, urls_priority, urls_non_priority,
                   visited, nb_pages, i, output, reported, fetched, result>>

\* The refusal of lines 167-168 counted as a page.
RefusedCounted ==
    /\ pc = "loop"
    /\ UNCHANGED ivars
    /\ it < Len(urls_priority)
    /\ ~BudgetReached(i, nb_pages)
    /\ IsHttp(Current)
    /\ \E rules \in RulesAt(Current) \ {Raised} :
          /\ ~can_crawl(rules)
          /\ gate' = [consulted |-> TRUE, url |-> Current, rules |-> rules,
                      answer |-> "refused"]
    /\ it' = it + 1
    /\ i' = i + 1
    /\ UNCHANGED <<seed, requested, origin_rules, pc, urls_priority, urls_non_priority,
                   visited, nb_pages, output, reported, fetched, failure, result>>

\* Lines 148, 167-168: can_crawl answers False.
Refused ==
    /\ pc = "loop"
    /\ UNCHANGED ivars
    /\ it < Len(urls_priority)
    /\ ~BudgetReached(i, nb_pages)
    /\ IsHttp(Current)
    /\ \E rules \in RulesAt(Current) \ {Raised} :
          /\ ~can_crawl(rules)
          /\ gate' = [consulted |-> TRUE, url |-> Current, rules |-> rules,
                      answer |-> "refused"]
    /\ it' = it + 1
    /\ UNCHANGED <<seed, requested, origin_rules, pc, urls_priority, urls_non_priority,
                   visited, nb_pages, i, output, reported, fetched, failure, result>>

\* Lines 148-153 with the fetch or the extraction raising: requests.get
\* (line 149), parse_html (line 152) or products[0] on an empty list (line 153).
PageRaise ==
    /\ pc = "loop"
    /\ UNCHANGED ivars
    /\ it < Len(urls_priority)
    /\ ~BudgetReached(i, nb_pages)
    /\ IsHttp(Current)
    /\ \E rules \in RulesAt(Current) \ {Raised} :
          /\ can_crawl(rules)
          /\ gate' = [consulted |-> TRUE, url |-> Current, rules |-> rules,
                      answer |-> "allowed"]
    /\ \E page \in PageOutcomes :
          /\ \/ page.kind # "parsed"
             \/ parse_html(Current, page) = <<>>
          /\ failure' = IF page.kind = "get_raises" THEN "fetch" ELSE "extract"
    /\ fetched' = Append(fetched, Current)
    /\ it' = it + 1
    /\ pc' = "crashed"
    /\ UNCHANGED <<seed, requested, origin_rules, urls_priority, urls_non_priority,
                   visited, nb_pages, i, output, reported, result>>

\* Lines 148-166: the page is fetched, parsed, its links classified, its
\* products appended to output and the page counted.
Crawled ==
    /\ pc = "loop"
    /\ UNCHANGED ivars
    /\ it < Len(urls_priority)
    /\ ~BudgetReached(i, nb_pages)
    /\ IsHttp(Current)
    /\ \E rules \in RulesAt(Current) \ {Raised} :
          /\ can_crawl(rules)
          /\ gate' = [consulted |-> TRUE, url |-> Current, rules |-> rules,
                      answer |-> "allowed"]
    /\ \E page \in PageOutcomes :
          /\ page.kind = "parsed"
          /\ parse_html(Current, page) # <<>>
          /\ LET st == ScanLinks(page.links,
                                 [urls_priority |-> urls_priority,
                                  visited |-> visited,
                                  urls_non_priority |-> urls_non_priority])
             IN  /\ urls_priority' = st.urls_priority
                 /\ visited' = st.visited
                 /\ urls_non_priority' = st.urls_non_priority
          /\ output' = output \o parse_html(Current, page)
    /\ fetched' = Append(fetched, Current)
    /\ i' = i + 1
    /\ it' = it + 1
    /\ UNCHANGED <<seed, requested, origin_rules, pc, nb_pages, reported, failure, result>>

CrawlNext ==
    \/ Begin
    \/ Exhausted
    \/ BudgetStop
    \/ SkipInvalid
    \/ RulesRaise
    \/ Refused
    \/ PageRaise
    \/ Crawled

\* ============================================================ index.py
\* ---------------------------------------------------------------- bounds

\* Most rows of the data frame.
MaxRows == 2

\* Most words of a title, a description or a feature value.
MaxTokens == 2

\* Most reviews of one product.
MaxReviews == 3

\* -------------------------------------------------------------- tokenizer
\* A text is the sequence of the words spaCy splits it into.

Words == {"Acme", "Corp", "the"}

\* Texts with a punctuation mark, after a word and before one.
Punctuated == {<<"Acme", ".">>, <<".", "Corp">>}

Texts == SeqsUpTo(Words, MaxTokens) \cup Punctuated

\* token.is_stop
is_stop(word) == word \in {"the"}

\* token.is_punct
is_punct(word) == word \in {"."}

\* token.text.lower()
lower(word) ==
    CASE word = "Acme" -> "acme"
      [] word = "Corp" -> "corp"
      [] OTHER -> word

\* Lines 28-30: the lowercased words that are neither stopword nor punctuation.
RECURSIVE remove_stopwords_punctuation(_)
remove_stopwords_punctuation(text) ==
    IF text = <<>> THEN <<>>
    ELSE LET word == Head(text)
             rest == remove_stopwords_punctuation(Tail(text))
         IN  IF ~is_stop(word) /\ ~is_punct(word) THEN <<lower(word)>> \o rest ELSE rest

\* ------------------------------------------------------------ dictionaries
\* A dict is a function; {} is the function of empty domain.

EmptyDict == <<>>

Put(dict, key, value) ==
    [k \in DOMAIN dict \cup {key} |-> IF k = key THEN value ELSE dict[k]]

\* ------------------------------------------------------- word_positions
\* Lines 72-74 with the position list replaced instead of extended.
AddPositionOverwriting(positions, token, index) == Put(positions, token, <<index>>)

\* Lines 72-74, one turn of the loop over enumerate(tokens).
AddPosition(positions, token, index) ==
    LET had == IF token \in DOMAIN positions THEN positions ELSE Put(positions, token, <<>>)
    IN  [had EXCEPT ![token] = Append(@, index)]

RECURSIVE PositionsFrom(_, _, _)
PositionsFrom(tokens, index, positions) ==
    IF index >= Len(tokens) THEN positions
    ELSE PositionsFrom(tokens, index + 1, AddPosition(positions, tokens[index + 1], index))

\* Lines 70-75.
word_positions(tokens) == PositionsFrom(tokens, 0, EmptyDict)

\* -------------------------------------------------- create_inverted_index
\* Lines 100-102 with the position list of the url extended at each write.
WriteEntryExtending(index, token, url, positions) ==
    LET had == IF token \in DOMAIN index THEN index ELSE Put(index, token, EmptyDict)
        old == IF url \in DOMAIN had[token] THEN had[token][url] ELSE <<>>
    IN  [had EXCEPT ![token] = Put(@, url, old \o positions[token])]

\* Lines 100-102, one turn of the loop over tokens.
WriteEntry(index, token, url, positions) ==
    LET had == IF token \in DOMAIN index THEN index ELSE Put(index, token, EmptyDict)
    IN  [had EXCEPT ![token] = Put(@, url, positions[token])]

RECURSIVE WriteEntries(_, _, _, _)
WriteEntries(index, tokens, url, positions) ==
    IF tokens = <<>> THEN index
    ELSE WriteEntries(WriteEntry(index, Head(tokens), url, positions),
                      Tail(tokens), url, positions)

\* Lines 97-102: one row of zip(data['url'], data[field]).
InvertedIndexRow(index, url, text) ==
    LET tokens == remove_stopwords_punctuation(text)
        positions == word_positions(tokens)
    IN  WriteEntries(index, tokens, url, positions)

\* --------------------------------------------------- create_reviews_index
\* Ratings are star counts; a mean is the exact quotient in lowest terms (the
\* rounding of the floating division is not modelled).

Ratings == {1, 5}

\* A list of three different ratings.
Mixed == <<3, 5, 1>>

Review(rating) == [id |-> "None", rating |-> rating, content |-> "None"]

RECURSIVE SumRatings(_)
SumRatings(reviews) ==
    IF reviews = <<>> THEN 0 ELSE Head(reviews).rating + SumRatings(Tail(reviews))

RECURSIVE Gcd(_, _)
Gcd(a, b) == IF b = 0 THEN a ELSE Gcd(b, a % b)

Quotient(a, b) == [num |-> a \div Gcd(a, b), den |-> b \div Gcd(a, b)]

\* The integer 0 of line 125 and the quotient 0/n are the same number.
Zero == [num |-> 0, den |-> 1]

\* None is the empty option, a rating r the option <<r>>.
NoRating == <<>>

\* Line 126 reading the first review instead of the last.
first_rating(reviews, total_reviews) ==
    IF total_reviews > 0 THEN <<reviews[1].rating>> ELSE NoRating

\* Line 125.
mean_mark(reviews, total_reviews) ==
    IF total_reviews > 0 THEN Quotient(SumRatings(reviews), total_reviews) ELSE Zero

\* Line 126: reviews[-1]['rating'].
last_rating(reviews, total_reviews) ==
    IF total_reviews > 0 THEN <<reviews[Len(reviews)].rating>> ELSE NoRating

\* Lines 124-131 with a product without reviews left out of the index.
ReviewsIndexRowSkippingEmpty(index, url, reviews) ==
    LET total_reviews == Len(reviews)
    IN  IF total_reviews = 0 THEN index
        ELSE Put(index, url, [total_reviews |-> total_reviews,
                              mean_mark |-> mean_mark(reviews, total_reviews),
                              last_rating |-> last_rating(reviews, total_reviews)])

\* Lines 124-131: one row of zip(data['url'], data['product_reviews']).
ReviewsIndexRow(index, url, reviews) ==
    LET total_reviews == Len(reviews)
    IN  Put(index, url, [total_reviews |-> total_reviews,
                         mean_mark |-> mean_mark(reviews, total_reviews),
                         last_rating |-> last_rating(reviews, total_reviews)])

\* -------------------------------------------------- create_features_index
\* Lines 157-159 with the url set replaced instead of extended.
AddUrlOverwriting(index, token, url) == Put(index, token, {url})

\* Lines 157-159, one turn of the loop over the tokens of the feature value.
AddUrl(index, token, url) ==
    LET had == IF token \in DOMAIN index THEN index ELSE Put(index, token, {})
    IN  [had EXCEPT ![token] = @ \cup {url}]

RECURSIVE AddUrls(_, _, _)
AddUrls(index, tokens, url) ==
    IF tokens = <<>> THEN index
    ELSE AddUrls(AddUrl(index, Head(tokens), url), Tail(tokens), url)

\* features.get(feature): the value, or None when the key is absent.
Get(features, feature) ==
    IF feature \in DOMAIN features THEN <<features[feature]>> ELSE <<>>

\* Lines 154-159: one row of zip(data['url'], data['product_features']).  The
\* value is tokenized when it is present and not the empty string.
FeaturesIndexRow(index, url, features, feature) ==
    LET found == Get(features, feature)
        feature_value ==
            IF found # <<>> /\ found[1] # <<>>
            THEN remove_stopwords_punctuation(found[1])
            ELSE <<>>
    IN  AddUrls(index, feature_value, url)

\* The orders list(urls) may give a set.
Orderings(S) ==
    {q \in [1..Cardinality(S) -> S] : \A a, b \in 1..Cardinality(S) : q[a] = q[b] => a = b}

\* ------------------------------------------------------------ index rows

Page1 == Url("https", "shop", <<"product", "1">>)
Page2 == Url("https", "shop", <<"product", "2">>)

DataUrls == {Page1, Page2}

Row(url, title, description, features, reviews) ==
    [url |-> url, title |-> title, description |-> description,
     product_features |-> features, product_reviews |-> reviews]

\* Text of the column a text construction does not read.
Unread == <<"Corp", "the">>

Material == [material |-> <<"Corp">>]

\* The columns of the corpus index.py is written for (the names lines 123 and
\* 153 read), and the keys of the records crawler.py writes (lines 96-106).
IndexColumns == {"url", "title", "description", "product_features", "product_reviews"}

CrawlColumns == {"url", "title", "description", "features", "links", "reviews"}

\* A row of a corpus written by crawler.py.
CrawlRow(url, title, description, features, links, reviews) ==
    [url |-> url, title |-> title, description |-> description,
     features |-> features, links |-> links, reviews |-> reviews]

\* What pandas puts in a text column where a record has no such key, or null:
\* a value that is no string.
Missing == <<"<NaN>">>

NoError == [kind |-> "none", row |-> <<>>]

TextRows(field) ==
    {Row(u, IF field = "title" THEN t ELSE Unread,
            IF field = "description" THEN t ELSE Unread, Material, <<>>) :
        u \in DataUrls, t \in Texts}

\* Rows whose text in the column read is missing.
MissingRows(field) ==
    {Row(u, IF field = "title" THEN Missing ELSE Unread,
            IF field = "description" THEN Missing ELSE Unread, Material, <<>>) :
        u \in DataUrls}

\* Rows of a corpus written by crawler.py: title and description are strings
\* (lines 62-70).
CrawlTextRows(field) ==
    {CrawlRow(u, IF field = "title" THEN t ELSE Unread,
                 IF field = "description" THEN t ELSE Unread, Material, <<>>, <<>>) :
        u \in DataUrls, t \in Texts}

\* The rows zip(data['url'], data[field]) may give a text construction.
FrameTextRows(cols, field) ==
    IF cols = CrawlColumns THEN CrawlTextRows(field) ELSE TextRows(field)

ReviewLists ==
    {[k \in 1..Len(q) |-> Review(q[k])] : q \in SeqsUpTo(Ratings, MaxReviews) \cup {Mixed}}

ReviewRows == {Row(u, Unread, Unread, Material, r) : u \in DataUrls, r \in ReviewLists}

FeatureMaps == {Material} \cup {[material |-> <<"Corp">>, brand |-> t] : t \in Texts}

FeatureRows == {Row(u, Unread, Unread, f, <<>>) : u \in DataUrls, f \in FeatureMaps}

IndexIdle ==
    /\ job = [op |-> "none", key |-> ""]
    /\ data = <<>>
    /\ built = EmptyDict
    /\ ipc = "idle"
    /\ columns = {}
    /\ error = NoError

\* main, lines 196-197: create_inverted_index(data, 'title' / 'description').
TextInit ==
    /\ job \in {[op |-> "text", key |-> f] : f \in {"title", "description"}}
    /\ data = <<>>
    /\ built = EmptyDict
    /\ ipc = "rows"
    /\ error = NoError

\* Lines 96-102, one row.
TextRow ==
    /\ ipc = "rows"
    /\ UNCHANGED cvars
    /\ job.op = "text"
    /\ Len(data) < MaxRows
    /\ job.key \in columns
    /\ \E row \in FrameTextRows(columns, job.key) :
          /\ data' = Append(data, row)
          /\ built' = InvertedIndexRow(built, row.url, row[job.key])
    /\ UNCHANGED <<job, ipc, columns, error>>

\* Lines 96-97 on a row whose text is missing: nlp(text) of line 28 raises on
\* a value that is no string, and the exception leaves create_inverted_index.
TextRaise ==
    /\ ipc = "rows"
    /\ UNCHANGED cvars
    /\ job.op = "text"
    /\ Len(data) < MaxRows
    /\ job.key \in columns
    /\ columns = IndexColumns
    /\ \E row \in MissingRows(job.key) :
          error' = [kind |-> "ValueError", row |-> row]
    /\ ipc' = "raised"
    /\ UNCHANGED <<job, data, built, columns>>

\* Lines 104-105.
TextReturn ==
    /\ ipc = "rows"
    /\ UNCHANGED cvars
    /\ job.op = "text"
    /\ ipc' = "done"
    /\ UNCHANGED <<job, data, built, columns, error>>

\* main, line 198: create_reviews_index(data).
ReviewsInit ==
    /\ job = [op |-> "reviews", key |-> "product_reviews"]
    /\ data = <<>>
    /\ built = EmptyDict
    /\ ipc = "rows"
    /\ error = NoError

\* Lines 123-131, one row.
ReviewsRow ==
    /\ ipc = "rows"
    /\ UNCHANGED cvars
    /\ job.op = "reviews"
    /\ Len(data) < MaxRows
    /\ "product_reviews" \in columns
    /\ \E row \in ReviewRows :
          /\ data' = Append(data, row)
          /\ built' = ReviewsIndexRow(built, row.url, row.product_reviews)
    /\ UNCHANGED <<job, ipc, columns, error>>

\* Line 123 on a frame without the column: data['product_reviews'] raises
\* KeyError before any row is taken.
ReviewsKeyError ==
    /\ ipc = "rows"
    /\ UNCHANGED cvars
    /\ job.op = "reviews"
    /\ "product_reviews" \notin columns
    /\ error' = [kind |-> "KeyError", row |-> <<>>]
    /\ ipc' = "raised"
    /\ UNCHANGED <<job, data, built, columns>>

\* Lines 133-134.
ReviewsReturn ==
    /\ ipc = "rows"
    /\ UNCHANGED cvars
    /\ job.op = "reviews"
    /\ "product_reviews" \in columns
    /\ ipc' = "done"
    /\ UNCHANGED <<job, data, built, columns, error>>

\* main, lines 199-201: create_features_index(data, 'brand').
FeaturesInit ==
    /\ job = [op |-> "features", key |-> "brand"]
    /\ data = <<>>
    /\ built = EmptyDict
    /\ ipc = "rows"
    /\ error = NoError

\* Lines 153-159, one row.
FeaturesRow ==
    /\ ipc = "rows"
    /\ UNCHANGED cvars
    /\ job.op = "features"
    /\ Len(data) < MaxRows
    /\ "product_features" \in columns
    /\ \E row \in FeatureRows :
          /\ data' = Append(data, row)
          /\ built' = FeaturesIndexRow(built, row.url, row.product_features, job.key)
    /\ UNCHANGED <<job, ipc, columns, error>>

\* Line 153 on a frame without the column: data['product_features'] raises
\* KeyError before any row is taken.
FeaturesKeyError ==
    /\ ipc = "rows"
    /\ UNCHANGED cvars
    /\ job.op = "features"
    /\ "product_features" \notin columns
    /\ error' = [kind |-> "KeyError", row |-> <<>>]
    /\ ipc' = "raised"
    /\ UNCHANGED <<job, data, built, columns>>

\* Lines 161-163: every set becomes a list, in an order of the set's.
FeaturesReturn ==
    /\ ipc = "rows"
    /\ UNCHANGED cvars
    /\ job.op = "features"
    /\ "product_features" \in columns
    /\ built' \in [DOMAIN built -> UNION {Orderings(built[t]) : t \in DOMAIN built}]
    /\ \A t \in DOMAIN built : built'[t] \in Orderings(built[t])
    /\ ipc' = "done"
    /\ UNCHANGED <<job, data, columns, error>>

\* ---------------------------------------------------------- specifications
CrawlIdle ==
    /\ seed = None
    /\ requested = 0
    /\ origin_rules = Raised
    /\ pc = "idle"
    /\ urls_priority = <<>>
    /\ it = 0
    /\ urls_non_priority = <<>>
    /\ visited = {}
    /\ nb_pages = 0
    /\ i = 0
    /\ output = <<>>
    /\ reported = FALSE
    /\ fetched = <<>>
    /\ gate = NoGate
    /\ failure = "none"
    /\ result = NoResult

vars == <<cvars, ivars>>

Init == CrawlInit /\ IndexIdle

Next == CrawlNext

Spec == Init /\ [][Next]_vars

TextStart == CrawlIdle /\ TextInit /\ columns = IndexColumns

TextNext == TextRow \/ TextRaise \/ TextReturn

SpecText == TextStart /\ [][TextNext]_vars

ReviewsStart == CrawlIdle /\ ReviewsInit /\ columns = IndexColumns

ReviewsNext == ReviewsRow \/ ReviewsReturn

SpecReviews == ReviewsStart /\ [][ReviewsNext]_vars

FeaturesStart == CrawlIdle /\ FeaturesInit /\ columns = IndexColumns

FeaturesNext == FeaturesRow \/ FeaturesReturn

SpecFeatures == FeaturesStart /\ [][FeaturesNext]_vars

\* Every construction of main over a corpus of the columns index.py reads.
IndexStart ==
    CrawlIdle /\ (TextInit \/ ReviewsInit \/ FeaturesInit) /\ columns = IndexColumns

IndexNext ==
    \/ TextRow
    \/ TextRaise
    \/ TextReturn
    \/ ReviewsRow
    \/ ReviewsReturn
    \/ FeaturesRow
    \/ FeaturesReturn

SpecIndex == IndexStart /\ [][IndexNext]_vars

\* Every construction of main over a corpus as crawler.py writes it.
PipelineStart ==
    CrawlIdle /\ (TextInit \/ ReviewsInit \/ FeaturesInit) /\ columns = CrawlColumns

PipelineNext ==
    \/ TextRow
    \/ TextReturn
    \/ ReviewsKeyError
    \/ FeaturesKeyError

SpecPipeline == PipelineStart /\ [][PipelineNext]_vars

FairSpec == Spec /\ WF_vars(Next)

\* ----------------------------------------------------------- crawl claims

Min(a, b) == IF a < b THEN a ELSE b

NoDuplicates(s) == \A a, b \in 1..Len(s) : s[a] = s[b] => a = b

Ended == pc \in {"done", "crashed"}

\* C1: the pages fetched and counted never exceed min(requestedPages, 50);
\* a request above 50 is clamped to 50 and the clamp is reported, a request
\* at or below 50 is used unchanged, and no page is requested once the count
\* has reached the budget.
C1_PageBudget ==
    /\ i <= Min(requested, pages_max)
    /\ Len(fetched) <= Min(requested, pages_max)
    /\ pc # "start" =>
          /\ nb_pages = Min(requested, pages_max)
          /\ reported = (requested > pages_max)
    /\ BudgetReached(i, nb_pages) => Len(fetched) = i

\* The budget stopped the crawl: the count equals the request and the url the
\* loop took last was left unfetched.
C1_Witness ==
    /\ pc = "done"
    /\ i = requested
    /\ Len(fetched) = requested
    /\ it >= 1
    /\ IsHttp(urls_priority[it])
    /\ ~InSeq(urls_priority[it], fetched)

\* C2: no URL is fetched more than once during one crawl and every URL is the
\* url of at most one output record, also when pages link back to the seed.
C2_NoRevisit ==
    /\ NoDuplicates(fetched)
    /\ NoDuplicates(output)

\* C3: every URL fetched is the seed or a link whose path begins with
\* /product/; a link of another path is never in the priority queue and
\* never fetched.
C3_OnlyProductScheduled ==
    /\ \A k \in 1..Len(fetched) :
          fetched[k] = seed \/ PathStartsWithProduct(fetched[k])
    /\ \A k \in 2..Len(urls_priority) : PathStartsWithProduct(urls_priority[k])
    /\ \A link \in Links :
          (~PathStartsWithProduct(link) /\ link # seed) =>
              (~InSeq(link, urls_priority) /\ ~InSeq(link, fetched))

\* The crawl went past the seed, having met the link /other, and returned.
C3_Witness ==
    /\ pc = "done"
    /\ Len(fetched) >= 2
    /\ InSeq(Other, urls_non_priority)
    /\ InSeq(Products, urls_non_priority)

\* C4: when the origin's rules resource is retrievable and holds the
\* catch-all disallow for all agents, no page of that origin is fetched.
C4_OriginWideExclusion ==
    origin_rules = Response(200, RobotsAll) => fetched = <<>>

\* C5: whenever the fetch of the rules resource fails (it raises, or it
\* returns a non-success response), the gate answers allowed, the crawl is
\* not aborted and the url is fetched.
C5_GateFailsOpen ==
    (gate.consulted /\ (gate.rules.raised \/ gate.rules.status_code # 200)) =>
        /\ gate.answer = "allowed"
        /\ failure # "rules"
        /\ fetched # <<>>
        /\ fetched[Len(fetched)] = gate.url

\* C6: a fetch or extract failure of one URL does not abort the crawl; the
\* crawl goes on and returns the records collected so far.
C6_PageFailureNonFatal ==
    failure \in {"fetch", "extract"} =>
        /\ pc # "crashed"
        /\ pc = "done" => (result.returned /\ result.value = output)

\* C7: when the crawl has ended, the queue is exhausted or the page count
\* has reached the budget.
C7_EndsOnExhaustionOrBudget ==
    Ended => (it >= Len(urls_priority) \/ BudgetReached(i, nb_pages))

\* Every run of the crawl ends (by returning or by raising).
Terminates == <>Ended

\* ----------------------------------------------------------- index claims

DistinctUrls(rows) == \A a, b \in 1..Len(rows) : rows[a].url = rows[b].url => a = b

\* Every word a text may hold and every token the tokenizer may give.
AllTokens == Words \cup {"."} \cup {lower(word) : word \in Words}

Occurs(token, tokens) == \E k \in 1..Len(tokens) : tokens[k] = token

\* positions lists, each once and in ascending order, exactly the zero-based
\* places of token in tokens.
ExactPositions(positions, token, tokens) ==
    /\ \A k \in 1..Len(positions) :
          /\ positions[k] \in 0..(Len(tokens) - 1)
          /\ tokens[positions[k] + 1] = token
    /\ \A k \in 1..(Len(positions) - 1) : positions[k] < positions[k + 1]
    /\ \A p \in 0..(Len(tokens) - 1) :
          tokens[p + 1] = token => \E k \in 1..Len(positions) : positions[k] = p

\* C8: over a corpus of distinct urls, the text index of field f has an entry
\* for token t and record d exactly when t occurs in tokenize(d.f), and the
\* entry lists all zero-based positions of t there, each once, ascending.
C8_PositionalIndex ==
    DistinctUrls(data) =>
        \A k \in 1..Len(data) : \A t \in AllTokens :
            LET d == data[k]
                tokens == remove_stopwords_punctuation(d[job.key])
                present == t \in DOMAIN built /\ d.url \in DOMAIN built[t]
            IN  /\ present <=> Occurs(t, tokens)
                /\ present => ExactPositions(built[t][d.url], t, tokens)

\* The title index of "Acme Acme" and "the Corp" has been returned.
C8_Witness ==
    /\ ipc = "done"
    /\ job.key = "title"
    /\ data = <<Row(Page1, <<"Acme", "Acme">>, Unread, Material, <<>>),
                Row(Page2, <<"the", "Corp">>, Unread, Material, <<>>)>>
    /\ built = ("acme" :> (Page1 :> <<0, 1>>)) @@ ("corp" :> (Page2 :> <<0>>))

\* The aggregate of one record, as the claim states it.
AggregateOf(entry, reviews) ==
    LET n == Len(reviews)
    IN  /\ entry.total_reviews = n
        /\ n = 0 => entry = [total_reviews |-> 0, mean_mark |-> Zero, last_rating |-> NoRating]
        /\ n > 0 =>
              /\ entry.mean_mark.num * n = SumRatings(reviews) * entry.mean_mark.den
              /\ entry.mean_mark.den > 0
              /\ entry.last_rating = <<reviews[n].rating>>

\* C9 as stated: for every record of the corpus the review index holds, at
\* the record's url, the count, the mean and the last rating of that record's
\* reviews.
C9_EveryRecord ==
    \A k \in 1..Len(data) :
        /\ data[k].url \in DOMAIN built
        /\ AggregateOf(built[data[k].url], data[k].product_reviews)

\* C9 amended: the same, over a corpus whose records have distinct urls.
C9_EveryRecordDistinctUrls == DistinctUrls(data) => C9_EveryRecord

\* The review index of a product rated 3, 5, 1 and of a product without
\* reviews has been returned.
C9_Witness ==
    /\ ipc = "done"
    /\ data = <<Row(Page1, Unread, Unread, Material,
                    <<Review(3), Review(5), Review(1)>>),
                Row(Page2, Unread, Unread, Material, <<>>)>>
    /\ built[Page1] = [total_reviews |-> 3, mean_mark |-> [num |-> 3, den |-> 1],
                       last_rating |-> <<1>>]
    /\ built[Page2] = [total_reviews |-> 0, mean_mark |-> Zero, last_rating |-> NoRating]

\* C10: the returned feature index lists url u under token t exactly when a
\* record of url u has the feature and t occurs in the tokens of its value;
\* no url is listed twice under a token.
C10_FeatureIndex ==
    ipc = "done" =>
        /\ \A t \in AllTokens : \A u \in DataUrls :
              (t \in DOMAIN built /\ InSeq(u, built[t]))
              <=> \E k \in 1..Len(data) :
                     /\ data[k].url = u
                     /\ job.key \in DOMAIN data[k].product_features
                     /\ Occurs(t, remove_stopwords_punctuation(
                                      data[k].product_features[job.key]))
        /\ \A t \in DOMAIN built : NoDuplicates(built[t])
        /\ DOMAIN built \subseteq AllTokens

\* Two products of brand "Acme Corp" are both listed under "acme".
C10_Witness ==
    /\ ipc = "done"
    /\ Len(data) = 2
    /\ data[1].url = Page1
    /\ data[2].url = Page2
    /\ \A k \in 1..2 : data[k].product_features =
                           [material |-> <<"Corp">>, brand |-> <<"Acme", "Corp">>]
    /\ built["acme"] = <<Page1, Page2>>
    /\ DOMAIN built = {"acme", "corp"}

\* C11: no construction raises on a corpus holding a record whose title,
\* description or feature value is missing or empty.
C11_MissingFieldsTolerated == error.kind = "none"

UrlsOf(rows) == {rows[k].url : k \in 1..Len(rows)}

\* The urls a feature index lists under a token: a set while the index is
\* built, a list once it is returned.
Listed(urls) == IF ipc = "done" THEN {urls[k] : k \in 1..Len(urls)} ELSE urls

\* C12: every url of a text index, of the review index and of a feature
\* index is the url of a record of the corpus, and the review index has an
\* entry for the url of every record.
C12_NoDanglingReferences ==
    /\ job.op = "text" => \A t \in DOMAIN built : DOMAIN built[t] \subseteq UrlsOf(data)
    /\ job.op = "reviews" => DOMAIN built = UrlsOf(data)
    /\ job.op = "features" => \A t \in DOMAIN built : Listed(built[t]) \subseteq UrlsOf(data)

\* The review index of two products without reviews has been returned.
C12_Witness ==
    /\ ipc = "done"
    /\ job.op = "reviews"
    /\ Len(data) = 2
    /\ data[1].url = Page2
    /\ data[2].url = Page1
    /\ data[1].product_reviews = <<>>
    /\ data[2].product_reviews = <<>>
    /\ DOMAIN built = {Page1, Page2}

\* One row of the text index written once per distinct token of the row.
DistinctTokenRow(index, url, text) ==
    LET tokens == remove_stopwords_punctuation(text)
        positions == word_positions(tokens)
        distinct == {tokens[k] : k \in 1..Len(tokens)}
    IN  [t \in DOMAIN index \cup distinct |->
            IF t \in distinct
            THEN Put(IF t \in DOMAIN index THEN index[t] ELSE EmptyDict, url, positions[t])
            ELSE index[t]]

RECURSIVE DistinctTokenIndex(_, _)
DistinctTokenIndex(rows, field) ==
    IF rows = <<>> THEN EmptyDict
    ELSE LET n == Len(rows)
         IN  DistinctTokenRow(DistinctTokenIndex(SubSeq(rows, 1, n - 1), field),
                              rows[n].url, rows[n][field])

\* C17: the text index written at every token occurrence equals the index
\* written once per distinct token of each document.
C17_PerOccurrenceEqualsPerDistinct == built = DistinctTokenIndex(data, job.key)

\* The description index of "Corp Corp" and "Acme Corp" has been returned.
C17_Witness ==
    /\ ipc = "done"
    /\ job.key = "description"
    /\ Len(data) = 2
    /\ data[1].url = Page1
    /\ data[1].description = <<"Corp", "Corp">>
    /\ data[2].url = Page2
    /\ data[2].description = <<"Acme", "Corp">>
    /\ built["corp"] = (Page1 :> <<0, 1>>) @@ (Page2 :> <<1>>)

\* C18: on a corpus of the fields crawl writes (url, title, description,
\* features, links, reviews) no index construction raises for a missing
\* field.
C18_CrawlCorpusAccepted == columns = CrawlColumns => error.kind # "KeyError"

\* ------------------------------------------------- further crawl claims

\* The links scheduled so far: the queue after the seed.
Scheduled == IF urls_priority = <<>> THEN <<>> ELSE Tail(urls_priority)

\* C13: a link is appended to the priority queue exactly when its path
\* begins with /product/ and it is not in visited; it joins visited in the
\* same step, so every link is appended at most once, however often it is
\* met: the scheduled links are distinct, they are exactly the visited set,
\* all have product paths, and a product link that was not appended when met
\* was in visited.
C13_EnqueueRule ==
    /\ NoDuplicates(Scheduled)
    /\ visited = {Scheduled[k] : k \in 1..Len(Scheduled)}
    /\ \A k \in 1..Len(Scheduled) : PathStartsWithProduct(Scheduled[k])
    /\ \A k \in 1..Len(urls_non_priority) :
          PathStartsWithProduct(urls_non_priority[k]) => urls_non_priority[k] \in visited

\* The seed page carried /product/1 twice: it is in the queue once.
C13_Witness ==
    /\ pc = "loop"
    /\ it = 1
    /\ urls_priority = <<Products, Product1>>
    /\ urls_non_priority = <<Product1>>
    /\ visited = {Product1}

\* C14: a step that skips a url (not http(s), or refused by the gate)
\* fetches no page and leaves the page count, the output, the queue and the
\* visited set unchanged, the loop going on with the next url; for a url
\* that is not http(s) the gate is not consulted.
C14_SkipChangesNothing ==
    [][(pc = "loop" /\ it < Len(urls_priority) /\ ~BudgetReached(i, nb_pages) /\
        (~IsHttp(Current) \/ gate'.answer = "refused")) =>
            /\ pc' = "loop"
            /\ it' = it + 1
            /\ i' = i
            /\ output' = output
            /\ urls_priority' = urls_priority
            /\ visited' = visited
            /\ fetched' = fetched
            /\ ~IsHttp(Current) => gate' = gate]_vars

\* After the seed page, /product/0 was refused and /product/3 skipped.
C14_Witness ==
    /\ pc = "loop"
    /\ it = 3
    /\ urls_priority = <<Products, Product0, RelProduct>>
    /\ gate.answer = "refused"
    /\ gate.url = Product0
    /\ i = 1
    /\ fetched = <<Products>>
    /\ Len(output) = 1

\* The text holds the catch-all disallow in the block of all agents.
CatchAllForAllAgents(text) ==
    Contains(text, <<"User-agent: ", "*", "\n", "Disallow: ", "/", "\n">>)

\* C15: the gate refuses only a rules resource that holds the catch-all
\* disallow for all agents; rules that only disallow a sub-path, or only
\* for one agent, are answered allowed.
C15_GatePrecision ==
    (gate.consulted /\ gate.answer = "refused") => CatchAllForAllAgents(gate.rules.text)

\* C16: the loop takes the urls in the order of the queue, starting with
\* the seed; the queue only grows at its end, past the url being processed;
\* each fetch is of the url taken and each output record is appended in
\* fetch order.
C16_FifoScheduling ==
    [][/\ it' \in {it, it + 1}
       /\ Len(urls_priority') >= Len(urls_priority)
       /\ SubSeq(urls_priority', 1, Len(urls_priority)) = urls_priority
       /\ urls_priority' # <<>> => urls_priority'[1] = seed
       /\ (pc = "loop" /\ urls_priority' # urls_priority) => it' = it + 1
       /\ fetched' # fetched =>
             /\ it' = it + 1
             /\ fetched' = Append(fetched, urls_priority[it + 1])
       /\ output' # output =>
             /\ fetched' # fetched
             /\ output' = Append(output, Product(urls_priority[it + 1]))]_vars

\* /product/0 and /product/1 found on the seed page and /product/3 found on
\* /product/0 were taken in that order.
C16_Witness ==
    /\ pc = "done"
    /\ urls_priority = <<Products, Product0, Product1, RelProduct>>
    /\ fetched = <<Products, Product0, Product1>>
    /\ output = <<Product(Products), Product(Product0), Product(Product1)>>
    /\ it = 4

\* C19: every link of the non-priority list has a path that is not a
\* product path, and no url is both in the priority queue and in the
\* non-priority list.
C19_CollectionsApart ==
    /\ \A k \in 1..Len(urls_non_priority) : ~PathStartsWithProduct(urls_non_priority[k])
    /\ \A k \in 1..Len(urls_non_priority) : ~InSeq(urls_non_priority[k], urls_priority)

====
